---- MODULE Spec2Model ----
(***************************************************************************)
(* State machine of the RecordingsScreen component: the React state of the *)
(* screen, the async handlers startRecording / stopRecording /             *)
(* playRecording with the values their closures captured at the render in  *)
(* which they were invoked, the 500 ms duration timer and the audio        *)
(* engine's pending calls.                                                 *)
(*                                                                         *)
(* A handler invocation runs synchronously up to its next await; the model *)
(* has one action per such segment.  State setters are applied at the end  *)
(* of the segment and the screen is re-rendered before the next event, so  *)
(* a press always captures the current state.                              *)
(*                                                                         *)
(* The audio engine and the permission dialog are opaque: a pending call   *)
(* settles at any later moment, in any order, with either outcome.  Two    *)
(* things are assumed of the runtime: an interval callback runs when it is *)
(* due, and an awaited engine call takes at least one millisecond.         *)
(***************************************************************************)
EXTENDS Integers, Sequences, FiniteSets, TLC

\* ---------------------------------------------------------------- bounds
MaxInv == 2          \* handler invocations in flight at once
MaxRecordings == 2   \* length of the recordings list
MaxNow == 1001       \* last clock value explored (ms)
Quantum == 500       \* grid on which idle time advances (ms)
MaxSub == 1          \* clock values explored past a grid point (ms)
MaxPosition == 1     \* length of a clip, in progress events
MaxSeconds == 6000   \* longest duration given to formatTime on its own (s)

\* ------------------------------------------------------ program constants
TickInterval == 500  \* setInterval(..., 500)

VARIABLES
  platformOS,               \* Platform.OS
  now,                      \* Date.now(), ms
  recordings,               \* useState<RecordingItem[]>
  isRecording,              \* useState(false)
  isLoading,                \* useState(false)
  currentRecordingPath,     \* useState<string | null>
  currentlyPlayingId,       \* useState<string | null>
  recordingStartTime,       \* useState<number | null>
  isRecordingSheetVisible,  \* useState(false)
  recordingDuration,        \* useState('00:00')
  timerRef,                 \* useRef<NodeJS.Timeout | null>: id of the interval, 0 = null
  timers,                   \* live intervals of the JS runtime
  sheetHiding,              \* the 300 ms hide animation of the sheet is running
  listenerOn,               \* a playback listener is registered with the engine
  playerActive,             \* the engine is playing a clip
  floatingStop,             \* a Sound.stopPlayer() nobody awaits is in flight
  inv,                      \* handler invocations suspended at an await
  lastEvent                 \* history: what the last step was

vars == <<platformOS, now, recordings, isRecording, isLoading,
          currentRecordingPath, currentlyPlayingId, recordingStartTime,
          isRecordingSheetVisible, recordingDuration, timerRef, timers,
          sheetHiding, listenerOn, playerActive, floatingStop, inv,
          lastEvent>>

\* JS null, for string-typed and number-typed state
null == "null"
nullTime == -1

\* ------------------------------------------------------------ formatTime
RECURSIVE padStart(_, _, _)
padStart(s, n, c) == IF Len(s) < n THEN padStart(c \o s, n, c) ELSE s

formatTimeClamped(milliseconds) ==
  LET totalSeconds == milliseconds \div 1000
      minutes == (totalSeconds \div 60) % 60
      seconds == totalSeconds % 60
  IN  padStart(ToString(minutes), 2, "0") \o ":" \o padStart(ToString(seconds), 2, "0")

formatTime(milliseconds) ==
  LET totalSeconds == milliseconds \div 1000
      minutes == totalSeconds \div 60
      seconds == totalSeconds % 60
  IN  padStart(ToString(minutes), 2, "0") \o ":" \o padStart(ToString(seconds), 2, "0")

\* ------------------------------------------------------------ records
\* Date.now().toString()
NewIdSeconds(t) == ToString(t \div 1000)
NewId(t) == ToString(t)

\* new Date().toLocaleString(): the wall clock at one-second resolution
toLocaleString(t) == ToString(t \div 1000)

\* `Recording ${recordings.length + 1}`
RecordingNameLength(list) == "Recording " \o ToString(Len(list))
RecordingName(list) == "Recording " \o ToString(Len(list) + 1)

RecordingPath(os, timestamp) ==
  IF os = "ios"
    THEN "DocumentDirectoryPath/recording_" \o ToString(timestamp) \o ".m4a"
    ELSE "ExternalDirectoryPath/recording_" \o ToString(timestamp) \o ".m4a"

newRecording(list, duration, path, t) ==
  [id |-> NewId(t), name |-> RecordingName(list), duration |-> duration,
   path |-> path, date |-> toLocaleString(t), isPlaying |-> FALSE]

NoItem == [id |-> null, name |-> "", duration |-> "", path |-> null,
           date |-> "", isPlaying |-> FALSE]

\* ------------------------------------------------------------ invocations
\* inv lists the invocations in flight in the order they were made; NoInv
\* stands for no invocation
NoInv ==
  [kind |-> "none", pc |-> "free",
   cRecordings |-> <<>>, cPath |-> null, cDuration |-> "", cPlayingId |-> null,
   item |-> NoItem, recordingPath |-> null, fresh |-> FALSE,
   calls |-> <<>>, alone |-> FALSE,
   gPress |-> 0, gTick |-> 0, gStart |-> 0]

Slots == 1..MaxInv
HasRoom == Len(inv) < MaxInv

InFlight(k, p) == {i \in 1..Len(inv) : inv[i].kind = k /\ inv[i].pc = p}

\* the invocation at position i returns
Remove(f, i) == [j \in 1..(Len(f) - 1) |-> IF j < i THEN f[j] ELSE f[j + 1]]

\* history record of a step: the handler that ran, how its segment ended, the
\* invocation (for a stopRecording or playRecording segment) and the messages
\* of the alerts it raised
Event(op, outcome) == [op |-> op, outcome |-> outcome, by |-> NoInv, alerts |-> <<>>]
PlayEvent(outcome, v) == [Event("playRecording", outcome) EXCEPT !.by = v]

\* Alert.alert(title, message) in the step with history record e
Alert(e, message) == [e EXCEPT !.alerts = Append(@, message)]

\* ------------------------------------------------------------ time
Min(S) == CHOOSE x \in S : \A y \in S : x <= y
Max(S) == CHOOSE x \in S : \A y \in S : x >= y

NextGrid == (now \div Quantum + 1) * Quantum
Dues == {t.due : t \in timers}

\* An awaited engine call does not resolve in the millisecond it was issued
\* (fresh: issued at the current clock value): the clock reads at least one
\* millisecond more when the continuation runs.
ResolveTime(i) == IF inv[i].fresh THEN now + 1 ELSE now

\* the invocations as they are once the clock reads t
Aged(f, t) == IF t = now THEN f ELSE [i \in 1..Len(f) |-> [f[i] EXCEPT !.fresh = FALSE]]

CanResolveAt(t) ==
  /\ t <= MaxNow
  /\ \A d \in Dues : t <= d
  /\ (t = now \/ t % Quantum <= MaxSub)

\* ------------------------------------------------------------ frames
recVars == <<isRecording, currentRecordingPath, recordingStartTime,
             recordingDuration, timerRef, timers>>
playVars == <<currentlyPlayingId, listenerOn, playerActive, floatingStop>>
sheetVars == <<isRecordingSheetVisible, sheetHiding>>

\* ------------------------------------------------------------ timer
\* the id setInterval returns: one no live interval has
NewTimerId(ts) == Min({n \in 1..(Cardinality(ts) + 1) : \A t \in ts : t.id # n})

setInterval(ts, id, startTime) ==
  ts \cup {[id |-> id, startTime |-> startTime, due |-> startTime + TickInterval]}

clearIntervalNone(ts, id) == ts
clearInterval(ts, id) == {t \in ts : t.id # id}

\* history: when the interval timerRef holds last ran its callback, or was set
LastTickAt == Max({0} \cup {t.due - TickInterval : t \in {u \in timers : u.id = timerRef}})

\* the interval callback's argument: formatTime(Date.now() - startTime)
TickDurationAbsolute(startTime) == formatTime(now)
TickDuration(startTime) == formatTime(now - startTime)

\* the interval callback: setRecordingDuration(formatTime(duration))
TimerTick(t) ==
  /\ t \in timers
  /\ now = t.due
  /\ recordingDuration' = TickDuration(t.startTime)
  /\ timers' = (timers \ {t}) \cup {[t EXCEPT !.due = t.due + TickInterval]}
  /\ lastEvent' = Event("none", "none")
  /\ UNCHANGED <<platformOS, now, recordings, isRecording, isLoading,
                 currentRecordingPath, recordingStartTime, timerRef,
                 playVars, sheetVars, inv>>

\* time passes while nothing runs, up to the next grid point or the next tick
Advance ==
  LET t == Min({NextGrid} \cup Dues)
  IN  /\ \A d \in Dues : now < d
      /\ t <= MaxNow
      /\ now' = t
      /\ inv' = Aged(inv, t)
      /\ lastEvent' = Event("none", "none")
      /\ UNCHANGED <<platformOS, recordings, isLoading, recVars, playVars,
                     sheetVars>>

\* ------------------------------------------------------------ controls
\* The sheet overlay covers the screen (absolute, zIndex 1000): while it is
\* rendered only the sheet's stop control can be pressed.
FabPressable == ~isLoading /\ ~isRecordingSheetVisible
ItemPressable == ~isRecordingSheetVisible
SheetStopPressable == isRecordingSheetVisible

\* setIsLoading(false) of the finally blocks (lines 155, 215, 257) and of the
\* early return of playRecording (line 232)
setIsLoadingSkipped == isLoading
setIsLoadingFalse == FALSE

\* line 385: {isLoading && !isRecording && (<View style={styles.loadingOverlay}>
LoadingOverlayShown == isLoading /\ ~isRecording

\* ------------------------------------------------------------ startRecording
\* requestPermissions: the outcomes of PermissionsAndroid.requestMultiple
PermissionOutcomes == {"granted", "denied", "throws"}
hasPermissionsAlways(r) == TRUE
\* requestPermissions returns true
hasPermissions(r) == r = "granted"

\* requestPermissions, lines 64-76: the alert of the else branch; the catch
\* only logs
PermissionAlert(e, r) ==
  IF r = "denied" THEN Alert(e, "Audio recording permissions are required") ELSE e

StartRecorderCallNoPath ==
  [NoInv EXCEPT !.kind = "start", !.pc = "startRecorder", !.fresh = TRUE]

\* lines 107-127: up to the await of Sound.startRecorder
StartRecorderCall ==
  [NoInv EXCEPT !.kind = "start", !.pc = "startRecorder",
                !.recordingPath = RecordingPath(platformOS, now),
                !.fresh = TRUE]

\* the record control is pressed while it shows the record icon
PressStartRecording ==
  /\ FabPressable /\ ~isRecording
  /\ Len(recordings) < MaxRecordings
  /\ HasRoom
  /\ IF platformOS = "android"
       THEN /\ inv' = Append(inv, [NoInv EXCEPT !.kind = "start", !.pc = "perm"])
            /\ UNCHANGED isLoading
       ELSE /\ inv' = Append(inv, StartRecorderCall)
            /\ isLoading' = TRUE
  /\ lastEvent' = Event("none", "none")
  /\ UNCHANGED <<platformOS, now, recordings, recVars, playVars, sheetVars>>

\* PermissionsAndroid.requestMultiple settles
PermissionResult(i, r) ==
  /\ i \in InFlight("start", "perm")
  /\ r \in PermissionOutcomes
  /\ IF hasPermissions(r)
       THEN /\ inv' = [inv EXCEPT ![i] = StartRecorderCall]
            /\ isLoading' = TRUE
            /\ lastEvent' = Event("none", "none")
       ELSE /\ inv' = Remove(inv, i)
            /\ lastEvent' = PermissionAlert(Event("startRecording", r), r)
            /\ UNCHANGED isLoading
  /\ UNCHANGED <<platformOS, now, recordings, recVars, playVars, sheetVars>>

\* showRecordingSheet; starting the show animation stops a running hide
\* animation, whose completion callback may still hide the sheet
ShowSheetOutcomes == IF sheetHiding THEN {TRUE, FALSE} ELSE {TRUE}

\* Sound.startRecorder settles: lines 128-150, or the catch, then finally
StartRecorderSettles(i, ok) ==
  /\ i \in InFlight("start", "startRecorder")
  /\ CanResolveAt(ResolveTime(i))
  /\ now' = ResolveTime(i)
  /\ inv' = Aged(Remove(inv, i), now')
  /\ isLoading' = setIsLoadingFalse
  /\ IF ok
       THEN /\ isRecording' = TRUE
            /\ currentRecordingPath' = inv[i].recordingPath
            /\ recordingStartTime' = now'
            /\ recordingDuration' = "00:00"
            /\ LET cleared == IF timerRef # 0 THEN clearInterval(timers, timerRef)
                                               ELSE timers
                   id == NewTimerId(cleared)
               IN  /\ timers' = setInterval(cleared, id, now')
                   /\ timerRef' = id
            /\ \E v \in ShowSheetOutcomes : isRecordingSheetVisible' = v
            /\ sheetHiding' = FALSE
            /\ lastEvent' = Event("startRecording", "started")
       ELSE /\ lastEvent' = Alert(Event("startRecording", "failed"),
                                    "Failed to start recording")
            /\ UNCHANGED <<recVars, sheetVars>>
  /\ UNCHANGED <<platformOS, recordings, playVars>>

\* ------------------------------------------------------------ stopRecording
\* line 169: if (!isRecording || !currentRecordingPath) return
StopGuardAlways == TRUE
StopGuard == isRecording /\ currentRecordingPath # null

\* line 169: the early return, as a history record
GuardReturnAlert == Alert(Event("stopRecording", "return"), "Not recording")
GuardReturn == Event("stopRecording", "return")

\* [...recordings, newRecording]
AppendRecording(list, rec) == Append(list, rec)

\* a stop control is pressed: the record control while it shows the stop icon,
\* or the sheet's stop control
PressStopRecording(via) ==
  /\ \/ via = "fab" /\ FabPressable /\ isRecording
     \/ via = "sheet" /\ SheetStopPressable
  /\ IF StopGuard
       THEN /\ HasRoom
            /\ Len(recordings) < MaxRecordings
            /\ isLoading' = TRUE
            /\ inv' = Append(inv,
                         [NoInv EXCEPT !.kind = "stop", !.pc = "stopRecorder",
                                       !.cRecordings = recordings,
                                       !.cPath = currentRecordingPath,
                                       !.cDuration = recordingDuration,
                                       !.fresh = TRUE,
                                       !.gPress = now,
                                       !.gTick = LastTickAt,
                                       !.gStart = recordingStartTime])
            /\ lastEvent' = Event("none", "none")
       ELSE /\ lastEvent' = GuardReturn
            /\ UNCHANGED <<isLoading, inv>>
  /\ UNCHANGED <<platformOS, now, recordings, recVars, playVars, sheetVars>>

\* hideRecordingSheet; a hide animation already running is stopped and its
\* completion callback may hide the sheet at once
HideSheetOutcomes == IF sheetHiding THEN {isRecordingSheetVisible, FALSE}
                                    ELSE {isRecordingSheetVisible}

\* Sound.stopRecorder settles: lines 174-210, or the catch, then finally
StopRecorderSettles(i, ok) ==
  /\ i \in InFlight("stop", "stopRecorder")
  /\ CanResolveAt(ResolveTime(i))
  /\ now' = ResolveTime(i)
  /\ inv' = Aged(Remove(inv, i), now')
  /\ isLoading' = setIsLoadingFalse
  /\ IF ok
       THEN /\ isRecording' = FALSE
            /\ IF timerRef # 0
                 THEN timers' = clearInterval(timers, timerRef) /\ timerRef' = 0
                 ELSE UNCHANGED <<timers, timerRef>>
            /\ \E v \in HideSheetOutcomes : isRecordingSheetVisible' = v
            /\ sheetHiding' = TRUE
            /\ recordingStartTime' = nullTime
            /\ recordings' = AppendRecording(inv[i].cRecordings,
                                newRecording(inv[i].cRecordings, inv[i].cDuration,
                                             inv[i].cPath, now'))
            /\ currentRecordingPath' = null
            /\ lastEvent' = [Event("stopRecording", "stopped")
                                EXCEPT !.by = [inv[i] EXCEPT !.fresh = FALSE]]
            /\ UNCHANGED recordingDuration
       ELSE /\ lastEvent' = Alert(Event("stopRecording", "failed"),
                                    "Failed to stop recording")
            /\ UNCHANGED <<recordings, recVars, sheetVars>>
  /\ UNCHANGED <<platformOS, playVars>>

\* the hide animation completes: setIsRecordingSheetVisible(false)
SheetHidden ==
  /\ sheetHiding
  /\ sheetHiding' = FALSE
  /\ isRecordingSheetVisible' = FALSE
  /\ lastEvent' = Event("none", "none")
  /\ UNCHANGED <<platformOS, now, recordings, isLoading, recVars, playVars,
                 inv>>

\* ------------------------------------------------------------ playRecording
\* the engine calls an invocation has made so far
Called(v, call) == [v EXCEPT !.calls = Append(v.calls, call)]
StartPlayerCall(item) == "startPlayer(" \o item.path \o ")"

\* line 225: if (currentlyPlayingId)
AlreadyPlayingNever(playingId) == FALSE
AlreadyPlaying(playingId) == playingId # null
\* line 230: if (currentlyPlayingId === item.id)
SameItemNever(playingId, item) == FALSE
SameItem(playingId, item) == playingId = item.id

PlayInFlight == {i \in 1..Len(inv) : inv[i].kind = "play"}
\* another playRecording has been invoked: no invocation in flight is alone
NotAlone(f) == [i \in 1..Len(f) |-> [f[i] EXCEPT !.alone = FALSE]]

\* a list item is pressed: playRecording(item) up to its first await
PressPlayRecording(k) ==
  /\ ItemPressable
  /\ k \in 1..Len(recordings)
  /\ HasRoom
  /\ LET item == recordings[k]
         v == [NoInv EXCEPT !.kind = "play", !.item = item,
                              !.cPlayingId = currentlyPlayingId,
                              !.alone = (PlayInFlight = {})]
     IN  /\ isLoading' = TRUE
         /\ IF AlreadyPlaying(currentlyPlayingId)
              THEN LET w == Called([v EXCEPT !.pc = "stopPlayer"], "stopPlayer")
                   IN  /\ inv' = Append(NotAlone(inv), w)
                       /\ UNCHANGED currentlyPlayingId
              ELSE LET w == Called([v EXCEPT !.pc = "startPlayer"], StartPlayerCall(item))
                   IN  /\ currentlyPlayingId' = item.id
                       /\ inv' = Append(NotAlone(inv), w)
         /\ lastEvent' = Event("none", "none")
  /\ UNCHANGED <<platformOS, now, recordings, recVars, sheetVars, listenerOn,
                 playerActive, floatingStop>>

\* Sound.stopPlayer settles: lines 227-240, or the catch, then finally
StopPlayerSettles(i, ok) ==
  /\ i \in InFlight("play", "stopPlayer")
  /\ IF ok
       THEN LET v == Called(inv[i], "removePlayBackListener")
            IN  /\ playerActive' = FALSE
                /\ listenerOn' = FALSE
                /\ IF SameItem(v.cPlayingId, v.item)
                     THEN /\ currentlyPlayingId' = null
                          /\ isLoading' = setIsLoadingFalse
                          /\ inv' = Remove(inv, i)
                          /\ lastEvent' = PlayEvent("stopped", v)
                     ELSE LET w == Called([v EXCEPT !.pc = "startPlayer"],
                                          StartPlayerCall(v.item))
                          IN  /\ currentlyPlayingId' = v.item.id
                              /\ inv' = [inv EXCEPT ![i] = w]
                              /\ lastEvent' = Event("none", "none")
                              /\ UNCHANGED isLoading
       ELSE /\ currentlyPlayingId' = null
            /\ isLoading' = setIsLoadingFalse
            /\ inv' = Remove(inv, i)
            /\ lastEvent' = Alert(PlayEvent("failed", inv[i]),
                                    "Failed to play recording")
            /\ UNCHANGED <<playerActive, listenerOn>>
  /\ UNCHANGED <<platformOS, now, recordings, recVars, sheetVars, floatingStop>>

\* Sound.startPlayer settles: lines 243-251, or the catch, then finally
StartPlayerSettles(i, ok) ==
  /\ i \in InFlight("play", "startPlayer")
  /\ isLoading' = setIsLoadingFalse
  /\ inv' = Remove(inv, i)
  /\ IF ok
       THEN /\ playerActive' = TRUE
            /\ listenerOn' = TRUE
            /\ lastEvent' = PlayEvent("started", Called(inv[i], "addPlayBackListener"))
            /\ UNCHANGED currentlyPlayingId
       ELSE /\ currentlyPlayingId' = null
            /\ lastEvent' = Alert(PlayEvent("failed", inv[i]),
                                    "Failed to play recording")
            /\ UNCHANGED <<playerActive, listenerOn>>
  /\ UNCHANGED <<platformOS, now, recordings, recVars, sheetVars, floatingStop>>

\* the progress events the engine reports while a clip plays
PlayBackEvents == [currentPosition : 0..MaxPosition, duration : {MaxPosition}]

\* line 246: if (e.currentPosition === e.duration)
AtEndNever(e) == FALSE
AtEnd(e) == e.currentPosition = e.duration

\* The engine reports progress event e; the clip has reached its end when the
\* position is the duration.  A registered listener receives e (lines
\* 243-251): at the end Sound.stopPlayer() without await,
\* removePlayBackListener, setCurrentlyPlayingId(null).
PlayBackEvent(e) ==
  /\ playerActive
  /\ playerActive' = (e.currentPosition # e.duration)
  /\ IF listenerOn /\ AtEnd(e)
       THEN /\ floatingStop' = TRUE
            /\ listenerOn' = FALSE
            /\ currentlyPlayingId' = null
            /\ lastEvent' = Event("listener", "completed")
       ELSE /\ lastEvent' = Event("none", "none")
            /\ UNCHANGED <<floatingStop, listenerOn, currentlyPlayingId>>
  /\ UNCHANGED <<platformOS, now, recordings, isLoading, recVars, sheetVars, inv>>

\* the listener's Sound.stopPlayer() settles; nothing awaits it
FloatingStopSettles ==
  /\ floatingStop
  /\ floatingStop' = FALSE
  /\ lastEvent' = Event("none", "none")
  /\ UNCHANGED <<platformOS, now, recordings, isLoading, recVars, sheetVars,
                 currentlyPlayingId, listenerOn, playerActive, inv>>

\* ------------------------------------------------------------ specification
Init ==
  /\ platformOS \in {"android", "ios"}
  /\ now = 0
  /\ recordings = <<>>
  /\ isRecording = FALSE
  /\ isLoading = FALSE
  /\ currentRecordingPath = null
  /\ currentlyPlayingId = null
  /\ recordingStartTime = nullTime
  /\ isRecordingSheetVisible = FALSE
  /\ recordingDuration = "00:00"
  /\ timerRef = 0
  /\ timers = {}
  /\ sheetHiding = FALSE
  /\ listenerOn = FALSE
  /\ playerActive = FALSE
  /\ floatingStop = FALSE
  /\ inv = <<>>
  /\ lastEvent = Event("none", "none")

Next ==
  \/ Advance
  \/ \E t \in timers : TimerTick(t)
  \/ PressStartRecording
  \/ \E i \in Slots, r \in PermissionOutcomes : PermissionResult(i, r)
  \/ \E i \in Slots, ok \in BOOLEAN : StartRecorderSettles(i, ok)
  \/ \E via \in {"fab", "sheet"} : PressStopRecording(via)
  \/ \E i \in Slots, ok \in BOOLEAN : StopRecorderSettles(i, ok)
  \/ SheetHidden
  \/ \E k \in 1..MaxRecordings : PressPlayRecording(k)
  \/ \E i \in Slots, ok \in BOOLEAN : StopPlayerSettles(i, ok)
  \/ \E i \in Slots, ok \in BOOLEAN : StartPlayerSettles(i, ok)
  \/ \E e \in PlayBackEvents : PlayBackEvent(e)
  \/ FloatingStopSettles

Spec == Init /\ [][Next]_vars

\* ------------------------------------------------------------ formatTime alone
\* formatTime as the interval callback applies it, for a recording started at
\* clock value 0: the clock reads any of FormatInputs when the callback runs.
FormatInputs == {s * 1000 + ms : s \in 0..MaxSeconds, ms \in {0, 999}}

InitFormat ==
  /\ platformOS = "ios"
  /\ now \in FormatInputs
  /\ recordings = <<>>
  /\ isRecording = TRUE
  /\ isLoading = FALSE
  /\ currentRecordingPath = RecordingPath(platformOS, 0)
  /\ currentlyPlayingId = null
  /\ recordingStartTime = 0
  /\ isRecordingSheetVisible = TRUE
  /\ recordingDuration = "00:00"
  /\ timerRef = 1
  /\ timers = {[id |-> 1, startTime |-> 0, due |-> now]}
  /\ sheetHiding = FALSE
  /\ listenerOn = FALSE
  /\ playerActive = FALSE
  /\ floatingStop = FALSE
  /\ inv = <<>>
  /\ lastEvent = Event("none", "none")

\* setRecordingDuration(formatTime(Date.now() - startTime))
FormatTick ==
  /\ lastEvent = Event("none", "none")
  /\ recordingDuration' = formatTime(now - recordingStartTime)
  /\ lastEvent' = Event("formatTime", "returned")
  /\ UNCHANGED <<platformOS, now, recordings, isRecording, isLoading,
                 currentRecordingPath, currentlyPlayingId, recordingStartTime,
                 isRecordingSheetVisible, timerRef, timers, sheetHiding,
                 listenerOn, playerActive, floatingStop, inv>>

NextFormat == FormatTick

SpecFormat == InitFormat /\ [][NextFormat]_vars

\* ------------------------------------------------------------ progress
\* The clock stops at the last grid point, and no awaited recorder call is
\* issued there, where it could not settle a millisecond later.
LastGrid == (MaxNow \div Quantum) * Quantum

NextLive ==
  /\ Next
  /\ now' <= LastGrid
  /\ \A i \in 1..Len(inv') : inv'[i].fresh => now' < LastGrid

\* Every pending engine call settles, with either outcome; time passes and a
\* due interval callback runs.
Fairness ==
  /\ WF_vars(\E i \in Slots, ok \in BOOLEAN : StartRecorderSettles(i, ok))
  /\ WF_vars(\E i \in Slots, ok \in BOOLEAN : StopRecorderSettles(i, ok))
  /\ WF_vars(\E i \in Slots, ok \in BOOLEAN : StopPlayerSettles(i, ok))
  /\ WF_vars(\E i \in Slots, ok \in BOOLEAN : StartPlayerSettles(i, ok))
  /\ WF_vars(\E t \in timers : TimerTick(t))
  /\ WF_vars(Advance)

SpecLive == Init /\ [][NextLive]_vars /\ Fairness

\* ------------------------------------------------------------ properties
Ids == {recordings[k].id : k \in 1..Len(recordings)}
ShownPlaying == {k \in 1..Len(recordings) : recordings[k].id = currentlyPlayingId}

\* C1 (invariant I1): the recording session and the playback session are
\* never both non-Idle: isRecording and currentlyPlayingId # null never hold
\* together.
C1_MutualExclusion == ~(isRecording /\ currentlyPlayingId # null)

\* C2: at most one record of the list is presented as the active playback,
\* and the records of the list have pairwise distinct ids.
C2_AtMostOneShownPlaying ==
  /\ Cardinality(ShownPlaying) <= 1
  /\ \A j, k \in 1..Len(recordings) : recordings[j].id = recordings[k].id => j = k

C2_Witness ==
  /\ Len(recordings) = 2
  /\ currentlyPlayingId = recordings[2].id
  /\ ShownPlaying = {2}

\* C3 (invariant I2): whenever currentlyPlayingId is not null, a record with
\* that id is in the recordings list.
C3_PlayingIdInList == currentlyPlayingId # null => currentlyPlayingId \in Ids

\* Sound.startRecorder calls in flight
StartRecorderCalls == Cardinality(InFlight("start", "startRecorder"))

\* C4: when the permission check returns false (denied, or the request
\* threw), that step changes nothing of the recording session, of the list or
\* of isLoading, and issues no Sound.startRecorder call: a session that was
\* Idle stays Idle and no record comes of the call.
C4_DeniedChangesNothing ==
  [][\A r \in PermissionOutcomes \ {"granted"} :
       (\E i \in 1..Len(inv) : PermissionResult(i, r)) =>
         /\ UNCHANGED <<recordings, isRecording, currentRecordingPath,
                        recordingStartTime, recordingDuration, timerRef,
                        timers, isLoading>>
         /\ StartRecorderCalls' = StartRecorderCalls
         /\ Len(inv') = Len(inv) - 1]_vars

C4_Witness ==
  /\ lastEvent.op = "startRecording" /\ lastEvent.outcome = "denied"
  /\ ~isRecording /\ currentRecordingPath = null /\ recordingStartTime = nullTime
  /\ timers = {} /\ recordings = <<>> /\ inv = <<>>

\* C5: the list grows by exactly one record per recording session: by one in
\* the step that ends a session (isRecording goes from true to false), and
\* not at all in any other step.
C5_OneRecordPerSession ==
  [][IF isRecording /\ ~isRecording'
       THEN Len(recordings') = Len(recordings) + 1
       ELSE Len(recordings') = Len(recordings)]_vars

\* C6: the recordings list is append-only: every change of the list is the
\* previous list with exactly one new record added at the end.
C6_AppendOnly ==
  [][recordings' # recordings =>
       /\ Len(recordings') = Len(recordings) + 1
       /\ SubSeq(recordings', 1, Len(recordings)) = recordings]_vars

\* C7: the record at 1-based position N of the list is named "Recording N".
C7_SequentialNames ==
  \A k \in 1..Len(recordings) : recordings[k].name = "Recording " \o ToString(k)

C7_Witness ==
  /\ Len(recordings) = 2
  /\ recordings[1].name = "Recording 1"
  /\ recordings[2].name = "Recording 2"

\* what a stopRecording invocation v captured, against the clock history
LastTickDuration(v) ==
  /\ v.cDuration = formatTime(v.gTick - v.gStart)
  /\ 0 <= v.gPress - v.gTick
  /\ v.gPress - v.gTick <= 500
  /\ (v.gTick = v.gStart => v.cDuration = "00:00")

StopDone == lastEvent.op = "stopRecording" /\ lastEvent.outcome = "stopped"

StopPlayerCalls(v) == Cardinality({k \in 1..Len(v.calls) : v.calls[k] = "stopPlayer"})
PlayDone == lastEvent.op = "playRecording"

\* C9: a playRecording invocation on the record that is the active playback
\* leaves currentlyPlayingId = null when it returns and has called
\* Sound.stopPlayer at most once; the invocation that started that playback
\* from Idle has not called it at all.
C9_ToggleTwiceIdle ==
  /\ (PlayDone /\ lastEvent.by.cPlayingId = lastEvent.by.item.id) =>
       /\ currentlyPlayingId = null
       /\ StopPlayerCalls(lastEvent.by) <= 1
  /\ (PlayDone /\ lastEvent.by.cPlayingId = null) =>
       StopPlayerCalls(lastEvent.by) = 0

C9_Witness ==
  /\ PlayDone /\ lastEvent.outcome = "stopped"
  /\ lastEvent.by.cPlayingId = lastEvent.by.item.id
  /\ lastEvent.by.alone
  /\ lastEvent.by.calls = <<"stopPlayer", "removePlayBackListener">>
  /\ currentlyPlayingId = null /\ ~playerActive /\ ~listenerOn

\* invocation v was made on another record than the active playback
Switching(v) == v.cPlayingId # null /\ v.cPlayingId # v.item.id

C11_CompletionStopsPlayback ==
  [][\A e \in PlayBackEvents :
       (PlayBackEvent(e) /\ listenerOn /\ e.currentPosition = e.duration) =>
         /\ currentlyPlayingId' = null
         /\ ~listenerOn'
         /\ floatingStop'
         /\ UNCHANGED inv]_vars

C11_Witness ==
  /\ lastEvent = Event("listener", "completed")
  /\ currentlyPlayingId = null /\ ~listenerOn /\ floatingStop /\ ~playerActive
  /\ inv = <<>>

\* decimal numerals, digit by digit
Digit(d) == <<"0", "1", "2", "3", "4", "5", "6", "7", "8", "9">>[d + 1]
RECURSIVE Decimal(_)
Decimal(n) == IF n < 10 THEN Digit(n) ELSE Decimal(n \div 10) \o Digit(n % 10)
RECURSIVE DigitCount(_)
DigitCount(n) == IF n < 10 THEN 1 ELSE 1 + DigitCount(n \div 10)
TwoDigits(n) == IF n < 10 THEN "0" \o Decimal(n) ELSE Decimal(n)

\* C12: for ms >= 0, formatTime(ms) is "MM:SS" where MM is
\* floor(floor(ms/1000)/60) in decimal, padded with a zero to two digits and
\* longer when the minutes need it (not clamped at 59), and SS is
\* floor(ms/1000) mod 60 in exactly two digits; formatTime(0) = "00:00",
\* formatTime(61000) = "01:01", formatTime(600000) = "10:00".
C12_FormatTime ==
  lastEvent.op = "formatTime" =>
    LET totalSeconds == now \div 1000
        minutes == totalSeconds \div 60
        seconds == totalSeconds % 60
    IN  /\ recordingDuration = TwoDigits(minutes) \o ":" \o TwoDigits(seconds)
        /\ Len(recordingDuration) = Max({2, DigitCount(minutes)}) + 3
        /\ minutes * 60 + seconds = totalSeconds
        /\ now = 0 => recordingDuration = "00:00"
        /\ now = 61000 => recordingDuration = "01:01"
        /\ now = 600000 => recordingDuration = "10:00"

C12_Witness ==
  /\ lastEvent.op = "formatTime"
  /\ now = 3600999
  /\ recordingDuration = "60:00"

StopReturned == lastEvent.op = "stopRecording" /\ lastEvent.outcome = "return"

\* C13: a stop control pressed while isRecording is false changes nothing: the
\* list, isRecording, the current path, the start time, the duration text, the
\* tick timer and isLoading stay as they are, and no engine call is issued.
C13_StopWhenIdleChangesNothing ==
  [][\A via \in {"fab", "sheet"} :
       (PressStopRecording(via) /\ ~isRecording) =>
         UNCHANGED <<recordings, isRecording, currentRecordingPath,
                     recordingStartTime, recordingDuration, timerRef, timers,
                     isLoading, inv, playVars>>]_vars

C13_Witness ==
  /\ StopReturned
  /\ ~isRecording /\ isRecordingSheetVisible
  /\ Len(recordings) = 1 /\ timers = {} /\ ~isLoading /\ inv = <<>>

Failed(op) == lastEvent.op = op /\ lastEvent.outcome = "failed"

\* C15: when an engine call fails, the session it belongs to is Idle once the
\* handler has finished: isRecording is false after a failed
\* Sound.startRecorder or Sound.stopRecorder, currentlyPlayingId is null after
\* a failed Sound.startPlayer or Sound.stopPlayer.
C15_FailureLeavesIdle ==
  /\ Failed("stopRecording") => ~isRecording
  /\ Failed("startRecording") => ~isRecording
  /\ Failed("playRecording") => currentlyPlayingId = null

\* C16: the step in which Sound.startRecorder fails leaves the recording
\* session Idle with no tick timer, adds no record, raises exactly one alert,
\* leaves isLoading false (the record control is enabled) and issues no new
\* Sound.startRecorder call.
C16_StartFailureRecoverable ==
  [][(\E i \in 1..Len(inv) : StartRecorderSettles(i, FALSE)) =>
       /\ ~isRecording' /\ timers' = {} /\ timerRef' = 0
       /\ recordings' = recordings
       /\ Len(lastEvent'.alerts) = 1
       /\ ~isLoading'
       /\ StartRecorderCalls' = StartRecorderCalls - 1]_vars

\* requestPermissions returned false to startRecording in the last step
PermissionRefused ==
  lastEvent.op = "startRecording" /\ lastEvent.outcome \in {"denied", "throws"}

\* C17: whenever requestPermissions returns false, on the denial path or when
\* PermissionsAndroid.requestMultiple throws, it has raised an alert; on iOS it
\* returns true without asking.
C17_DenialSurfaced ==
  /\ PermissionRefused => Len(lastEvent.alerts) >= 1
  /\ platformOS = "ios" => InFlight("start", "perm") = {} /\ ~PermissionRefused

\* C18: a tick timer is live exactly while isRecording is true, there is
\* never more than one, and the live one is the one timerRef holds.
C18_TickIffActive ==
  /\ (timers # {}) <=> isRecording
  /\ Cardinality(timers) <= 1
  /\ \A t \in timers : t.id = timerRef
  /\ timers = {} => timerRef = 0

C18_Witness ==
  /\ StopDone
  /\ lastEvent.by.gTick > lastEvent.by.gStart
  /\ ~isRecording /\ timers = {} /\ timerRef = 0

\* engine calls in flight, by session
RecorderCalls == {i \in 1..Len(inv) : inv[i].pc \in {"startRecorder", "stopRecorder"}}
PlayerCalls == {i \in 1..Len(inv) : inv[i].pc \in {"startPlayer", "stopPlayer"}}

\* C19: at no time are two Sound.startRecorder / Sound.stopRecorder calls in
\* flight together, and at no time are two Sound.startPlayer /
\* Sound.stopPlayer calls in flight together.
C19_NoOverlap ==
  /\ Cardinality(RecorderCalls) <= 1
  /\ Cardinality(PlayerCalls) + (IF floatingStop THEN 1 ELSE 0) <= 1

\* C20: Sound.startRecorder is never called while an earlier
\* Sound.startRecorder call is in flight, or while the recording it started
\* is active (isRecording is true).
C20_OneRecordingSession ==
  [][StartRecorderCalls' > StartRecorderCalls =>
       (~isRecording /\ StartRecorderCalls = 0)]_vars

\* C21: a session is shown Active only once its engine call has been awaited
\* and has succeeded: currentlyPlayingId is never the id of a record whose
\* Sound.startPlayer call is in flight or has just failed, and isRecording
\* becomes true only in the step in which a Sound.startRecorder call succeeds.
C21_PublishedAfterAwait ==
  [][/\ \A i \in 1..Len(inv') :
          (inv'[i].kind = "play" /\ inv'[i].pc = "startPlayer") =>
            currentlyPlayingId' # inv'[i].item.id
     /\ Failed("playRecording")' => currentlyPlayingId' # lastEvent'.by.item.id
     /\ (~isRecording /\ isRecording') =>
          \E i \in 1..Len(inv) : StartRecorderSettles(i, TRUE)]_vars

\* C22: Sound.addPlayBackListener is never called while a listener added
\* earlier is still registered.
C22_RemoveBeforeAdd ==
  [][(\E i \in 1..Len(inv) : StartPlayerSettles(i, TRUE)) => ~listenerOn]_vars

\* an engine call is in flight, the listener's own Sound.stopPlayer() included
EngineCallInFlight == RecorderCalls # {} \/ PlayerCalls # {} \/ floatingStop

\* C23: while any engine call is in flight, isLoading is true and the loading
\* overlay is rendered.
C23_OverlayWhileInFlight == EngineCallInFlight => (isLoading /\ LoadingOverlayShown)

\* C24: isRecording is true exactly when currentRecordingPath is not null, and
\* exactly when recordingStartTime is not null.
C24_RecordingStateCoherent ==
  /\ isRecording <=> currentRecordingPath # null
  /\ isRecording <=> recordingStartTime # nullTime

C24_Witness ==
  /\ isRecording
  /\ currentRecordingPath # null /\ recordingStartTime # nullTime
  /\ Len(recordings) = 1
  /\ InFlight("stop", "stopRecorder") # {}

\* C25: when currentlyPlayingId is null and no playRecording invocation is in
\* flight, no playback listener is registered.
C25_NoListenerInIdle ==
  (currentlyPlayingId = null /\ PlayInFlight = {}) => ~listenerOn

\* invocations that have called setIsLoading(true)
LoadingInvocations == {i \in 1..Len(inv) : inv[i].pc # "perm"}

\* C26: the step in which an invocation that set isLoading to true returns
\* sets it to false, and, every engine call returning, isLoading never stays
\* true: the record control is enabled again.
C26_LoadingEventuallyFalse ==
  /\ [][Cardinality(LoadingInvocations') < Cardinality(LoadingInvocations) =>
         ~isLoading']_vars
  /\ isLoading ~> ~isLoading

C26_Witness ==
  /\ Failed("stopRecording")
  /\ ~isLoading /\ isRecording /\ inv = <<>>
  /\ FabPressable \/ isRecordingSheetVisible

====
